---- MODULE Spec2Model ----
(***************************************************************************)
(* A model of the Minesweeper knowledge engine of src/minesweeper.py:      *)
(* class Sentence, class MinesweeperAI, and the part of class Minesweeper  *)
(* that feeds it (the mine placement and nearby_mines).                    *)
(*                                                                         *)
(* A Sentence is a record [cells, count]; the knowledge base is the list   *)
(* self.knowledge, a sequence of such records.  Sentence.__init__ copies   *)
(* the cell set, so no two sentences share a set and value semantics is    *)
(* exact.  add_knowledge runs as a sequence of steps, its position held in  *)
(* pc: the ingestion (lines 188-199), each test of while(changes), each     *)
(* sentence the for loop of mines_safes looks at, each engine-level mark,   *)
(* the removal of the empty sentences, each call of inferences() and each   *)
(* append of what it returned.  The order in which Python walks a set is    *)
(* left open: any cell of a set may come next.                              *)
(*                                                                         *)
(* Spec       the engine fed by a truthful game                            *)
(* SpecFair   Spec, a running call being bound to go on                    *)
(* SpecMoves  Spec with make_safe_move and make_random_move between calls  *)
(* SpecDeep   Spec on larger grids                                         *)
(* SpecInfer  inferences() applied to arbitrary lists of sentences         *)
(* SpecAPI    mark_mine, mark_safe and add_knowledge called with anything  *)
(* SpecScene  the first calls on a fresh engine, grids up to 3 x 3         *)
(* SpecUnchecked  add_knowledge called with cells outside the grid and with *)
(*            counts no cell can show                                      *)
(***************************************************************************)
EXTENDS Integers, Sequences, FiniteSets, TLC

\* Spec, SpecFair, SpecMoves: MinesweeperAI(height, width) is built on a grid
\* of at most MaxArea cells, the board holds at most MaxMines mines, and at most
\* MaxCalls calls of add_knowledge are made.
MaxArea == 6
MaxMines == 2
MaxCalls == 3
\* SpecDeep: the same on larger grids.
DeepArea == 8
DeepMines == 2
DeepCalls == 3
\* SpecInfer: inferences() on every list of at most InferLen sentences over the
\* cells of a 1 x InferWidth grid.
InferWidth == 3
InferLen == 2
\* SpecScene: at most SceneCalls calls on a fresh engine, on a grid of at most
\* SceneSide rows and SceneSide columns with at most SceneMines mines.
SceneSide == 3
SceneMines == 1
SceneCalls == 1
\* SpecUnchecked: at most BadCalls calls of add_knowledge, with any input, on a
\* grid of at most BadArea cells.
BadArea == 4
BadCalls == 2
\* SpecAPI: at most ApiCalls calls of mark_mine, mark_safe and add_knowledge on
\* a grid of at most ApiArea cells.
ApiArea == 4
ApiCalls == 3

VARIABLES
    height,           \* MinesweeperAI.height
    width,            \* MinesweeperAI.width
    board,            \* Minesweeper.mines: the true mine placement
    moves_made,       \* MinesweeperAI.moves_made
    mines,            \* MinesweeperAI.mines      (known_mine)
    safes,            \* MinesweeperAI.safes      (known_safe)
    knowledge,        \* MinesweeperAI.knowledge  (list of Sentence)
    pc,               \* position inside add_knowledge, "idle" between calls
    arg,              \* add_knowledge: its arguments (cell, count) while it runs
    new_knowledge,    \* add_knowledge: what inferences() returned (line 204)
    changes,          \* mines_safes: the local variable changes
    idx,              \* mines_safes: position of the for loop over knowledge
    empty_sentences,  \* mines_safes: the local list empty_sentences
    pending,          \* mines_safes: cells of known_mines / known_safes not yet marked
    last,             \* the last call made and the move it returned
    budget            \* calls the environment may still make

vars == <<height, width, board, moves_made, mines, safes, knowledge, pc, arg,
          new_knowledge, changes, idx, empty_sentences, pending, last, budget>>

game == <<height, width, board>>

locals == <<arg, new_knowledge, changes, idx, empty_sentences, pending>>

Cells == (0 .. height - 1) \X (0 .. width - 1)

None == <<>>

NoPending == [mines |-> {}, safes |-> {}]

NoArg == [cell |-> None, count |-> 0]

Elems(list) == { list[k] : k \in DOMAIN list }

----------------------------------------------------------------------------
\* class Sentence

Sentence(cells, count) == [cells |-> cells, count |-> count]

\* mutant of known_mines: any positive count is taken for "all mines"
known_mines_positive(s) == IF s.count > 0 THEN s.cells ELSE {}

known_mines(s) == IF Cardinality(s.cells) = s.count THEN s.cells ELSE {}

\* mutant of known_safes: the test of known_mines, pasted
known_safes_pasted(s) == IF Cardinality(s.cells) = s.count THEN s.cells ELSE {}

known_safes(s) == IF s.count = 0 THEN s.cells ELSE {}

\* mutant of SentenceMarkMine: the count is not decremented
SentenceMarkMine_keeps_count(s, cell) ==
    IF cell \in s.cells
    THEN [cells |-> s.cells \ {cell}, count |-> s.count]
    ELSE s

\* mutant of SentenceMarkMine: discard the cell, decrement whether or not it was there
SentenceMarkMine_always_decrements(s, cell) ==
    [cells |-> s.cells \ {cell}, count |-> s.count - 1]

SentenceMarkMine(s, cell) ==
    IF cell \in s.cells
    THEN [cells |-> s.cells \ {cell}, count |-> s.count - 1]
    ELSE s

\* mutant of SentenceMarkSafe: the count is decremented, as for a mine
SentenceMarkSafe_decrements(s, cell) ==
    IF cell \in s.cells
    THEN [cells |-> s.cells \ {cell}, count |-> s.count - 1]
    ELSE s

SentenceMarkSafe(s, cell) ==
    IF cell \in s.cells
    THEN [cells |-> s.cells \ {cell}, count |-> s.count]
    ELSE s

----------------------------------------------------------------------------
\* class Minesweeper: the environment

get_neighbours(cell) ==
    { n \in ((cell[1] - 1) .. (cell[1] + 1)) \X ((cell[2] - 1) .. (cell[2] + 1)) :
        /\ n # cell
        /\ 0 <= n[1] /\ n[1] < height
        /\ 0 <= n[2] /\ n[2] < width }

nearby_mines(cell) == Cardinality(get_neighbours(cell) \cap board)

----------------------------------------------------------------------------
\* class MinesweeperAI: helpers

\* the engine's state as one value
AIState ==
    [moves_made |-> moves_made, mines |-> mines, safes |-> safes, knowledge |-> knowledge]

\* MinesweeperAI.mark_mine
mark_mine(st, cell) ==
    [st EXCEPT !.mines = @ \cup {cell},
               !.knowledge = [k \in DOMAIN @ |-> SentenceMarkMine(@[k], cell)]]

\* mutant of mark_safe: the sentences are not told
mark_safe_set_only(st, cell) == [st EXCEPT !.safes = @ \cup {cell}]

\* MinesweeperAI.mark_safe
mark_safe(st, cell) ==
    [st EXCEPT !.safes = @ \cup {cell},
               !.knowledge = [k \in DOMAIN @ |-> SentenceMarkSafe(@[k], cell)]]

\* the engine's state becomes st
Becomes(st) ==
    /\ moves_made' = st.moves_made
    /\ mines' = st.mines
    /\ safes' = st.safes
    /\ knowledge' = st.knowledge

\* `x in list`, by Sentence.__eq__
InList(s, kb) == \E k \in DOMAIN kb : kb[k].cells = s.cells /\ kb[k].count = s.count

\* list.remove(x): drops the first element equal to x
RECURSIVE ListRemove(_, _)
ListRemove(kb, s) ==
    IF kb = <<>> THEN <<>>
    ELSE IF Head(kb).cells = s.cells /\ Head(kb).count = s.count THEN Tail(kb)
    ELSE <<Head(kb)>> \o ListRemove(Tail(kb), s)

\* for sentence in empty_sentences: self.knowledge.remove(sentence)
RECURSIVE RemoveAll(_, _)
RemoveAll(kb, es) ==
    IF es = <<>> THEN kb ELSE RemoveAll(ListRemove(kb, Head(es)), Tail(es))

\* add_knowledge, lines 190-196: the cells and the count of the new sentence
NewCells(st, cell) ==
    { n \in get_neighbours(cell) : n \notin st.mines /\ n \notin st.safes }

\* mutant of NewCount: the known mines are not taken off the count
NewCount_no_decrement(st, cell, count) == count

NewCount(st, cell, count) ==
    count - Cardinality({ n \in get_neighbours(cell) : n \in st.mines })

\* add_knowledge, lines 188-199
ingest(st, cell, count) ==
    LET s1 == mark_safe([st EXCEPT !.moves_made = @ \cup {cell}], cell)
    IN  IF Cardinality(NewCells(s1, cell)) > 0
        THEN [s1 EXCEPT !.knowledge =
                 Append(@, Sentence(NewCells(s1, cell), NewCount(s1, cell, count)))]
        ELSE s1

\* mutant of InferPair: the counts are subtracted the wrong way round
InferPair_swapped(kb, a, b) ==
    IF a.cells \subseteq b.cells
    THEN LET new_sentence == Sentence(b.cells \ a.cells, a.count - b.count)
         IN  IF ~InList(new_sentence, kb) /\ Cardinality(new_sentence.cells) > 0
             THEN <<new_sentence>> ELSE <<>>
    ELSE IF b.cells \subseteq a.cells
    THEN LET new_sentence == Sentence(a.cells \ b.cells, b.count - a.count)
         IN  IF ~InList(new_sentence, kb) /\ Cardinality(new_sentence.cells) > 0
             THEN <<new_sentence>> ELSE <<>>
    ELSE <<>>

\* the body of the double loop of inferences for one pair (a, b)
InferPair(kb, a, b) ==
    IF a.cells \subseteq b.cells
    THEN LET new_sentence == Sentence(b.cells \ a.cells, b.count - a.count)
         IN  IF ~InList(new_sentence, kb) /\ Cardinality(new_sentence.cells) > 0
             THEN <<new_sentence>> ELSE <<>>
    ELSE IF b.cells \subseteq a.cells
    THEN LET new_sentence == Sentence(a.cells \ b.cells, a.count - b.count)
         IN  IF ~InList(new_sentence, kb) /\ Cardinality(new_sentence.cells) > 0
             THEN <<new_sentence>> ELSE <<>>
    ELSE <<>>

\* mutant of InferFrom: the inner loop stops one sentence short
RECURSIVE InferFrom_short(_, _, _)
InferFrom_short(kb, i, j) ==
    IF i > Len(kb) - 1 THEN <<>>
    ELSE IF j > Len(kb) - 1 THEN InferFrom_short(kb, i + 1, i + 2)
    ELSE InferPair(kb, kb[i], kb[j]) \o InferFrom_short(kb, i, j + 1)

\* the double loop of inferences, from the pair (i, j) on
RECURSIVE InferFrom(_, _, _)
InferFrom(kb, i, j) ==
    IF i > Len(kb) - 1 THEN <<>>
    ELSE IF j > Len(kb) THEN InferFrom(kb, i + 1, i + 2)
    ELSE InferPair(kb, kb[i], kb[j]) \o InferFrom(kb, i, j + 1)

inferences(kb) == InferFrom(kb, 1, 2)

----------------------------------------------------------------------------
\* the locals of a call that is not running
Idle ==
    /\ pc = "idle"
    /\ arg = NoArg
    /\ new_knowledge = <<>>
    /\ changes = FALSE
    /\ idx = 0
    /\ empty_sentences = <<>>
    /\ pending = NoPending

\* MinesweeperAI.__init__ on an h x w grid, over a board of at most m mines
Fresh(h, w, m, n) ==
    /\ height = h
    /\ width = w
    /\ board \in { b \in SUBSET ((0 .. h - 1) \X (0 .. w - 1)) : Cardinality(b) <= m }
    /\ moves_made = {}
    /\ mines = {}
    /\ safes = {}
    /\ knowledge = <<>>
    /\ Idle
    /\ last = [op |-> "init", move |-> None]
    /\ budget = n

Init ==
    \E h \in 1 .. MaxArea, w \in 1 .. MaxArea :
        h * w <= MaxArea /\ Fresh(h, w, MaxMines, MaxCalls)

\* add_knowledge(cell, count), lines 188-201: record the move, mark the cell
\* safe, append the sentence over the undetermined neighbours, enter mines_safes.
Ingest(cell, count) ==
    /\ pc = "idle"
    /\ budget > 0
    /\ budget' = budget - 1
    /\ Becomes(ingest(AIState, cell, count))
    /\ arg' = [cell |-> cell, count |-> count]
    /\ last' = [op |-> "add_knowledge", move |-> None]
    /\ pc' = "ms_while"
    /\ changes' = TRUE
    /\ UNCHANGED <<game, new_knowledge, idx, empty_sentences, pending>>

\* The game reveals a cell that holds no mine, with its true count.
AddKnowledge ==
    \E cell \in Cells \ board : Ingest(cell, nearby_mines(cell))

\* mutant of MsWhile: changes is not reset at the top of the loop
MsWhile_no_reset ==
    /\ pc = "ms_while"
    /\ empty_sentences' = <<>>
    /\ idx' = 1
    /\ pc' = "ms_for"
    /\ UNCHANGED <<game, moves_made, mines, safes, knowledge, arg, new_knowledge,
                   changes, pending, last, budget>>

\* mines_safes, lines 289-291: the test of while(changes)
MsWhile ==
    /\ pc = "ms_while"
    /\ IF changes
       THEN /\ changes' = FALSE
            /\ empty_sentences' = <<>>
            /\ idx' = 1
            /\ pc' = "ms_for"
       ELSE /\ pc' = "ak_while"
            /\ idx' = 0
            /\ empty_sentences' = <<>>
            /\ UNCHANGED changes
    /\ UNCHANGED <<game, moves_made, mines, safes, knowledge, arg, new_knowledge,
                   pending, last, budget>>

\* mutant of MsFor: known_safes() is not looked at
MsFor_mines_only ==
    /\ pc = "ms_for"
    /\ idx <= Len(knowledge)
    /\ LET sentence == knowledge[idx]
       IN  IF Cardinality(sentence.cells) = 0
           THEN /\ empty_sentences' = Append(empty_sentences, sentence)
                /\ idx' = idx + 1
                /\ UNCHANGED <<pc, pending>>
           ELSE /\ UNCHANGED empty_sentences
                /\ IF known_mines(sentence) = {}
                   THEN /\ idx' = idx + 1
                        /\ UNCHANGED <<pc, pending>>
                   ELSE /\ pending' = [mines |-> known_mines(sentence), safes |-> {}]
                        /\ pc' = "ms_mark"
                        /\ idx' = idx
    /\ UNCHANGED <<game, moves_made, mines, safes, knowledge, arg, new_knowledge,
                   changes, last, budget>>

\* mines_safes, lines 292-299: the for loop looks at one sentence, and copies
\* its known_mines() and known_safes()
MsFor ==
    /\ pc = "ms_for"
    /\ idx <= Len(knowledge)
    /\ LET sentence == knowledge[idx]
       IN  IF Cardinality(sentence.cells) = 0
           THEN /\ empty_sentences' = Append(empty_sentences, sentence)
                /\ idx' = idx + 1
                /\ UNCHANGED <<pc, pending>>
           ELSE /\ UNCHANGED empty_sentences
                /\ IF known_mines(sentence) = {} /\ known_safes(sentence) = {}
                   THEN /\ idx' = idx + 1
                        /\ UNCHANGED <<pc, pending>>
                   ELSE /\ pending' = [mines |-> known_mines(sentence),
                                       safes |-> known_safes(sentence)]
                        /\ pc' = "ms_mark"
                        /\ idx' = idx
    /\ UNCHANGED <<game, moves_made, mines, safes, knowledge, arg, new_knowledge,
                   changes, last, budget>>

\* mines_safes, lines 301-307: one cell of known_mines is marked, or, once these
\* are done, one cell of known_safes
MsMark ==
    /\ pc = "ms_mark"
    /\ changes' = TRUE
    /\ IF pending.mines # {}
       THEN \E mine \in pending.mines :
                /\ Becomes(mark_mine(AIState, mine))
                /\ pending' = [pending EXCEPT !.mines = @ \ {mine}]
       ELSE \E safe \in pending.safes :
                /\ Becomes(mark_safe(AIState, safe))
                /\ pending' = [pending EXCEPT !.safes = @ \ {safe}]
    /\ IF pending'.mines = {} /\ pending'.safes = {}
       THEN /\ idx' = idx + 1
            /\ pc' = "ms_for"
       ELSE UNCHANGED <<idx, pc>>
    /\ UNCHANGED <<game, arg, new_knowledge, empty_sentences, last, budget>>

\* mutant of MsRemove: the empty sentences stay in the list
MsRemove_keeps ==
    /\ pc = "ms_for"
    /\ idx > Len(knowledge)
    /\ idx' = 0
    /\ pc' = "ms_while"
    /\ UNCHANGED <<game, moves_made, mines, safes, knowledge, arg, new_knowledge,
                   changes, empty_sentences, pending, last, budget>>

\* mines_safes, lines 309-310: the empty sentences are removed
MsRemove ==
    /\ pc = "ms_for"
    /\ idx > Len(knowledge)
    /\ knowledge' = RemoveAll(knowledge, empty_sentences)
    /\ idx' = 0
    /\ pc' = "ms_while"
    /\ UNCHANGED <<game, moves_made, mines, safes, arg, new_knowledge, changes,
                   empty_sentences, pending, last, budget>>

\* mutant of AkWhile: inferences() is called whatever moves_made and safes hold
AkWhile_ungated ==
    /\ pc = "ak_while"
    /\ new_knowledge' = inferences(knowledge)
    /\ pc' = "ak_if"
    /\ UNCHANGED <<game, moves_made, mines, safes, knowledge, changes, idx,
                   empty_sentences, pending, last, budget, arg>>

\* add_knowledge, lines 203-204: the test of the while loop, and inferences()
AkWhile ==
    /\ pc = "ak_while"
    /\ IF Cardinality(moves_made) = Cardinality(safes)
       THEN /\ new_knowledge' = inferences(knowledge)
            /\ pc' = "ak_if"
            /\ UNCHANGED arg
       ELSE /\ pc' = "idle"
            /\ arg' = NoArg
            /\ UNCHANGED new_knowledge
    /\ UNCHANGED <<game, moves_made, mines, safes, knowledge, changes, idx,
                   empty_sentences, pending, last, budget>>

\* add_knowledge, lines 205-211: the new sentences are appended and mines_safes
\* is entered, or the loop is left
AkIf ==
    /\ pc = "ak_if"
    /\ IF Len(new_knowledge) # 0
       THEN /\ knowledge' = knowledge \o new_knowledge
            /\ pc' = "ms_while"
            /\ changes' = TRUE
            /\ UNCHANGED arg
       ELSE /\ pc' = "idle"
            /\ arg' = NoArg
            /\ UNCHANGED <<knowledge, changes>>
    /\ new_knowledge' = <<>>
    /\ UNCHANGED <<game, moves_made, mines, safes, idx, empty_sentences, pending,
                   last, budget>>

\* mutant of SafeMoves: moves_made is not looked at
SafeMoves_any == safes

\* make_safe_move, lines 222-226
SafeMoves == { move \in safes : move \notin moves_made }

\* mutant of MakeSafeMove: the move returned is recorded as made
MakeSafeMove_plays ==
    /\ pc = "idle"
    /\ \/ \E move \in SafeMoves :
            /\ last' = [op |-> "make_safe_move", move |-> move]
            /\ moves_made' = moves_made \cup {move}
       \/ /\ SafeMoves = {}
          /\ last' = [op |-> "make_safe_move", move |-> None]
          /\ UNCHANGED moves_made
    /\ UNCHANGED <<game, mines, safes, knowledge, pc, locals, budget>>

MakeSafeMove ==
    /\ pc = "idle"
    /\ \/ \E move \in SafeMoves : last' = [op |-> "make_safe_move", move |-> move]
       \/ /\ SafeMoves = {}
          /\ last' = [op |-> "make_safe_move", move |-> None]
    /\ UNCHANGED <<game, moves_made, mines, safes, knowledge, pc, locals, budget>>

\* mutant of maybe_safe_moves: mines is not looked at
maybe_safe_moves_with_mines == { m \in Cells : m \notin moves_made }

\* make_random_move, lines 235-244
maybe_safe_moves == { m \in Cells : m \notin moves_made /\ m \notin mines }

MakeRandomMove ==
    /\ pc = "idle"
    /\ \/ \E move \in maybe_safe_moves : last' = [op |-> "make_random_move", move |-> move]
       \/ /\ maybe_safe_moves = {}
          /\ last' = [op |-> "make_random_move", move |-> None]
    /\ UNCHANGED <<game, moves_made, mines, safes, knowledge, pc, locals, budget>>

\* the steps add_knowledge takes once it has been entered
Run ==
    \/ MsWhile
    \/ MsFor
    \/ MsMark
    \/ MsRemove
    \/ AkWhile
    \/ AkIf

\* The engine fed by a truthful game.
Next ==
    \/ AddKnowledge
    \/ Run

Spec == Init /\ [][Next]_vars

\* A call that has been entered runs on: the code is sequential.
SpecFair == Spec /\ WF_vars(Run)

\* The same, on larger grids.
InitDeep ==
    \E h \in 1 .. DeepArea, w \in 1 .. DeepArea :
        h * w <= DeepArea /\ Fresh(h, w, DeepMines, DeepCalls)

SpecDeep == InitDeep /\ [][Next]_vars

\* The engine fed by a truthful game and asked for moves between the calls.
NextMoves ==
    \/ AddKnowledge
    \/ Run
    \/ MakeSafeMove
    \/ MakeRandomMove

SpecMoves == Init /\ [][NextMoves]_vars

\* inferences() as a function of the list: it is called on every list of at
\* most InferLen sentences over the cells of a 1 x InferWidth grid.
InferCells == (0 .. 0) \X (0 .. InferWidth - 1)

InferSentences ==
    UNION { { Sentence(c, n) : n \in 0 .. Cardinality(c) } : c \in SUBSET InferCells }

InitInfer ==
    /\ height = 1
    /\ width = InferWidth
    /\ board = {}
    /\ moves_made = {}
    /\ mines = {}
    /\ safes = {}
    /\ knowledge \in UNION { [1 .. n -> InferSentences] : n \in 0 .. InferLen }
    /\ pc = "ak_while"
    /\ arg = NoArg
    /\ new_knowledge = <<>>
    /\ changes = FALSE
    /\ idx = 0
    /\ empty_sentences = <<>>
    /\ pending = NoPending
    /\ last = [op |-> "init", move |-> None]
    /\ budget = 0

SpecInfer == InitInfer /\ [][AkWhile]_vars

\* The engine driven through its whole interface: mark_mine, mark_safe and
\* add_knowledge with any cell of the grid and any count a cell can show.
MarkMine ==
    /\ pc = "idle"
    /\ budget > 0
    /\ budget' = budget - 1
    /\ \E cell \in Cells : Becomes(mark_mine(AIState, cell))
    /\ last' = [op |-> "mark_mine", move |-> None]
    /\ UNCHANGED <<game, pc, locals>>

MarkSafe ==
    /\ pc = "idle"
    /\ budget > 0
    /\ budget' = budget - 1
    /\ \E cell \in Cells : Becomes(mark_safe(AIState, cell))
    /\ last' = [op |-> "mark_safe", move |-> None]
    /\ UNCHANGED <<game, pc, locals>>

AddKnowledgeAny ==
    \E cell \in Cells : \E count \in 0 .. Cardinality(get_neighbours(cell)) :
        Ingest(cell, count)

InitAPI ==
    \E h \in 1 .. ApiArea, w \in 1 .. ApiArea :
        h * w <= ApiArea /\ Fresh(h, w, 0, ApiCalls)

NextAPI ==
    \/ MarkMine
    \/ MarkSafe
    \/ AddKnowledgeAny
    \/ Run

SpecAPI == InitAPI /\ [][NextAPI]_vars

\* The first calls on a fresh engine, on grids of up to SceneSide x SceneSide.
InitScene ==
    \E h \in 1 .. SceneSide, w \in 1 .. SceneSide : Fresh(h, w, SceneMines, SceneCalls)

SpecScene == InitScene /\ [][Next]_vars

\* add_knowledge called by a caller that keeps no contract: the cell may lie one
\* step outside the grid, the count may be negative or larger than the number
\* of neighbours.
UncheckedCells == (-1 .. height) \X (-1 .. width)

AddKnowledgeUnchecked ==
    \E cell \in UncheckedCells :
        \E count \in -1 .. Cardinality(get_neighbours(cell)) + 1 :
            Ingest(cell, count)

InitUnchecked ==
    \E h \in 1 .. BadArea, w \in 1 .. BadArea :
        h * w <= BadArea /\ Fresh(h, w, 0, BadCalls)

NextUnchecked ==
    \/ AddKnowledgeUnchecked
    \/ Run

SpecUnchecked == InitUnchecked /\ [][NextUnchecked]_vars

----------------------------------------------------------------------------
\* Properties

\* every sentence the engine holds: the list and the local empty_sentences
Held == Elems(knowledge) \cup Elems(empty_sentences) \cup Elems(new_knowledge)

Returned == pc = "idle" /\ moves_made # {}

\* C1: fed by a truthful game, every cell of safes holds no mine and every cell
\* of mines holds a mine, in every state; so a move make_safe_move returns is
\* never a mine.
C1_Soundness ==
    /\ safes \cap board = {}
    /\ mines \subseteq board
    /\ (last.op = "make_safe_move" /\ last.move # None) => last.move \notin board

C1_Witness ==
    /\ mines # {}
    /\ safes \ moves_made # {}
    /\ last.op = "make_safe_move"
    /\ last.move \in safes \ moves_made

\* C2: safes and mines are disjoint in every state, the states inside
\* add_knowledge (between two marks, between two passes) included.
C2_Disjoint == safes \cap mines = {}

C2_Witness ==
    /\ pc = "ms_mark"
    /\ mines # {}
    /\ safes \ moves_made # {}

\* C3: every sentence held satisfies 0 <= count <= len(cells), in every state,
\* the states inside add_knowledge included.
C3_CountBounds ==
    \A s \in Held : 0 <= s.count /\ s.count <= Cardinality(s.cells)

C3_Witness ==
    /\ pc = "ms_mark"
    /\ mines # {}
    /\ \E k \in DOMAIN knowledge :
         knowledge[k].count > 0 /\ knowledge[k].count < Cardinality(knowledge[k].cells)

\* C4: every call of add_knowledge returns: mines_safes reaches a pass without
\* a change and comes back to the while loop of add_knowledge, and that loop is
\* left.
C4_Terminates ==
    /\ (pc \in {"ms_while", "ms_for", "ms_mark"}) ~> (pc = "ak_while")
    /\ (pc # "idle") ~> (pc = "idle")

C4_Witness ==
    /\ pc = "ak_if"
    /\ new_knowledge # <<>>
    /\ Cardinality(moves_made) >= 2

\* the subset rule over a list of sentences: for every pair of distinct
\* sentences A, B with A.cells a subset of B.cells, (B.cells - A.cells,
\* B.count - A.count), kept when its cells are not empty and no equal sentence
\* is in the list
Candidates(kb) ==
    { c \in { [cells |-> kb[p[2]].cells \ kb[p[1]].cells,
               count |-> kb[p[2]].count - kb[p[1]].count] :
                 p \in { q \in (DOMAIN kb) \X (DOMAIN kb) :
                           q[1] # q[2] /\ kb[q[1]].cells \subseteq kb[q[2]].cells } } :
        c.cells # {} /\ c \notin Elems(kb) }

\* C5: whenever add_knowledge has returned, no pair of distinct sentences of
\* the knowledge base yields an acceptable candidate.
C5_FixedPointOnReturn == Returned => Candidates(knowledge) = {}

\* What the test of line 203 leaves of C5: whenever add_knowledge has returned
\* with as many cells in safes as in moves_made, no pair of distinct sentences
\* of the knowledge base yields an acceptable candidate.
C5_FixedPointWhenNoSafeMove ==
    (Returned /\ Cardinality(moves_made) = Cardinality(safes))
        => Candidates(knowledge) = {}

\* a returned state of that kind that holds a sentence and a larger one
C5_Witness ==
    /\ Returned
    /\ Cardinality(moves_made) = Cardinality(safes)
    /\ \E i, j \in DOMAIN knowledge :
         /\ knowledge[i].cells \subseteq knowledge[j].cells
         /\ knowledge[i].cells # knowledge[j].cells

\* On return the knowledge base holds no sentence with empty cells and no
\* sentence with count = 0 or count = len(cells).
C6_NoResolvedOnReturn ==
    Returned => \A s \in Elems(knowledge) :
                    /\ s.cells # {}
                    /\ s.count # 0
                    /\ s.count # Cardinality(s.cells)

\* A step of mines_safes: the cells of a sentence found resolved are all queued,
\* as safes when its count is 0 and as mines when its count is len(cells); a
\* cell taken off the queue is put into mines or safes and is then in no
\* sentence; the for loop goes on only when the queue is empty.
C6_ResolvedAreMarked ==
    /\ (pc = "ms_for" /\ idx <= Len(knowledge) /\ knowledge[idx].cells # {}) =>
          /\ knowledge[idx].count = 0 =>
                /\ pc' = "ms_mark"
                /\ pending'.safes = knowledge[idx].cells
          /\ knowledge[idx].count = Cardinality(knowledge[idx].cells) =>
                /\ pc' = "ms_mark"
                /\ pending'.mines = knowledge[idx].cells
    /\ pc = "ms_mark" =>
          /\ \A c \in pending.mines \ pending'.mines :
                c \in mines' /\ \A s \in Elems(knowledge') : c \notin s.cells
          /\ \A c \in pending.safes \ pending'.safes :
                c \in safes' /\ \A s \in Elems(knowledge') : c \notin s.cells
          /\ pc' = "ms_for" => pending' = NoPending

\* C6: whenever add_knowledge has returned, the knowledge base holds no sentence
\* with empty cells and no sentence with count = 0 or count = len(cells); and
\* inside mines_safes every cell of a sentence found resolved is put into safes
\* (count = 0) or into mines (count = len(cells)) and is then in no sentence.
C6_PropagationFixedPoint ==
    /\ []C6_NoResolvedOnReturn
    /\ [][C6_ResolvedAreMarked]_vars

C6_Witness ==
    /\ Returned
    /\ mines # {}
    /\ safes \ moves_made # {}
    /\ knowledge # <<>>

\* What inferences() returned holds exactly the candidates of the subset rule,
\* and on the list ({a,b}, 1), ({a,b,c}, 2) it is the list ({c}, 1).
C7_PassResult ==
    /\ pc = "ak_if" => Elems(new_knowledge) = Candidates(knowledge)
    /\ (pc = "ak_if"
         /\ knowledge = << [cells |-> {<<0, 0>>, <<0, 1>>}, count |-> 1],
                           [cells |-> {<<0, 0>>, <<0, 1>>, <<0, 2>>}, count |-> 2] >>)
          => new_knowledge = << [cells |-> {<<0, 2>>}, count |-> 1] >>

\* The call of inferences() leaves the knowledge base as it was.
C7_PassLeavesKnowledge == (pc = "ak_while" /\ pc' = "ak_if") => knowledge' = knowledge

\* C7: the list inferences() returns holds exactly the candidates of the subset
\* rule, the call leaves the knowledge base as it was, and on the list
\* ({a,b}, 1), ({a,b,c}, 2) it returns ({c}, 1).
C7_DerivationPass ==
    /\ []C7_PassResult
    /\ [][C7_PassLeavesKnowledge]_vars

C7_Witness ==
    /\ pc = "ak_if"
    /\ knowledge = << [cells |-> {<<0, 0>>, <<0, 1>>}, count |-> 1],
                      [cells |-> {<<0, 0>>, <<0, 1>>, <<0, 2>>}, count |-> 2] >>
    /\ new_knowledge = << [cells |-> {<<0, 2>>}, count |-> 1] >>

\* the in-bounds 8-neighbours of a cell, the cell itself left out
Around(cell) ==
    { c \in Cells :
        /\ c # cell
        /\ c[1] - cell[1] \in {-1, 0, 1}
        /\ c[2] - cell[2] \in {-1, 0, 1} }

\* the first step of add_knowledge(cell, n), as C8 describes it
C8_IngestStep ==
    (pc = "idle" /\ pc' # "idle") =>
        LET cell == arg'.cell
            n == arg'.count
            N == Around(cell)
            U == N \ (mines \cup safes)
        IN  /\ moves_made' = moves_made \cup {cell}
            /\ safes' = safes \cup {cell}
            /\ mines' = mines
            /\ \A s \in Elems(knowledge') : cell \notin s.cells
            /\ \A k \in DOMAIN knowledge :
                 knowledge'[k] = [knowledge[k] EXCEPT !.cells = @ \ {cell}]
            /\ IF U = {}
               THEN Len(knowledge') = Len(knowledge)
               ELSE /\ Len(knowledge') = Len(knowledge) + 1
                    /\ knowledge'[Len(knowledge')] =
                         [cells |-> U, count |-> n - Cardinality(N \cap mines)]

\* C8: the first step of add_knowledge(cell, n) adds cell to moves_made and to
\* safes and takes it out of every sentence; it appends the sentence with cells
\* N - (mines + safes) and count n - |N * mines|, N the in-bounds 8-neighbours
\* of cell, and appends nothing when these cells are empty.
C8_Ingestion == [][C8_IngestStep]_vars

C8_Witness ==
    /\ pc = "ms_while"
    /\ arg # NoArg
    /\ new_knowledge = <<>>
    /\ Around(arg.cell) \cap mines # {}
    /\ Around(arg.cell) \cap safes # {}
    /\ knowledge # <<>>
    /\ knowledge[Len(knowledge)] =
         [cells |-> Around(arg.cell) \ (mines \cup safes),
          count |-> arg.count - Cardinality(Around(arg.cell) \cap mines)]
    /\ knowledge[Len(knowledge)].cells # {}

\* C9: in every state of the engine and for every cell c, mark_safe(c) twice
\* leaves moves_made, mines, safes and every sentence as mark_safe(c) once does,
\* and so for mark_mine(c).
C9_MarkIdempotent ==
    \A c \in Cells :
        /\ mark_safe(mark_safe(AIState, c), c) = mark_safe(AIState, c)
        /\ mark_mine(mark_mine(AIState, c), c) = mark_mine(AIState, c)

C9_Witness ==
    /\ last.op = "mark_mine"
    /\ mines # {}
    /\ \E s \in Elems(knowledge) : \E c \in s.cells : mark_mine(AIState, c) # AIState

\* C10: make_safe_move returns a cell of safes that is not in moves_made when
\* there is one, and None exactly when safes is a subset of moves_made.
C10_SafeMove ==
    last.op = "make_safe_move" =>
        /\ last.move # None => (last.move \in safes /\ last.move \notin moves_made)
        /\ last.move = None <=> safes \subseteq moves_made

C10_Witness ==
    /\ last.op = "make_safe_move"
    /\ last.move \in safes
    /\ moves_made # {}

\* C11: make_random_move returns a cell of the grid that is neither in
\* moves_made nor in mines, and None exactly when every cell of the grid is in
\* moves_made or in mines.
C11_RandomMove ==
    last.op = "make_random_move" =>
        /\ last.move # None =>
              /\ last.move \in Cells
              /\ last.move \notin moves_made
              /\ last.move \notin mines
        /\ last.move = None <=> \A c \in Cells : c \in moves_made \/ c \in mines

\* mines covers all cells but one, that one has been played, and the answer
\* was None
C11_Witness ==
    /\ last.op = "make_random_move"
    /\ last.move = None
    /\ Cardinality(mines) = Cardinality(Cells) - 1
    /\ Cardinality(moves_made) = 1

\* a step that is a call of make_safe_move or make_random_move
QueryStep ==
    /\ pc = "idle"
    /\ pc' = "idle"
    /\ budget' = budget
    /\ last'.op \in {"make_safe_move", "make_random_move"}

\* the engine's state moves only in the first step of add_knowledge and in the
\* steps of a call of add_knowledge that is running
C12_OnlyAddKnowledgeAdvances ==
    AIState' # AIState =>
        \/ pc = "idle" /\ pc' = "ms_while" /\ last'.op = "add_knowledge"
        \/ pc # "idle"

\* C12: make_safe_move and make_random_move leave moves_made, safes, mines and
\* the knowledge base as they were, and the engine's state changes only inside
\* add_knowledge.
C12_QueriesPure ==
    [][(QueryStep => AIState' = AIState) /\ C12_OnlyAddKnowledgeAdvances]_vars

\* a query has answered with a move while the engine held sentences and mines
C12_Witness ==
    /\ last.op = "make_random_move"
    /\ last.move # None
    /\ knowledge # <<>>
    /\ mines # {}

\* a step that is a call of the engine-level mark_mine or mark_safe
MarkStep ==
    /\ pc = "idle"
    /\ budget' = budget - 1
    /\ last'.op \in {"mark_mine", "mark_safe"}

\* C13: a call of mark_mine(c) with c in safes, or of mark_safe(c) with c in
\* mines, is flagged as fatal and does not leave c in both sets: no call of the
\* two puts a cell into safes and mines that was not in both before.
C13_ContradictionFlagged ==
    [][MarkStep => \A c \in Cells :
           (c \in mines' /\ c \in safes') => (c \in mines /\ c \in safes)]_vars

\* the input of a call of add_knowledge breaks the caller's contract
BadInput(a) ==
    \/ a.cell \notin Cells
    \/ a.count < 0
    \/ a.count > Cardinality(get_neighbours(a.cell))

\* the first step of a call of add_knowledge
CallStep == pc = "idle" /\ pc' = "ms_while"

\* no sentence is appended by a call whose input breaks the contract
C14_NoSentenceFromBadInput ==
    [][(CallStep /\ BadInput(arg')) => Len(knowledge') = Len(knowledge)]_vars

\* C14: add_knowledge rejects a cell outside the grid, a negative count and a
\* count larger than the number of in-bounds neighbours: the call is not
\* recorded as a move and no sentence built from it enters the knowledge base.
C14_RejectsBadInput ==
    [][(CallStep /\ BadInput(arg')) =>
           /\ moves_made' = moves_made
           /\ Len(knowledge') = Len(knowledge)]_vars

\* the step by which a call of add_knowledge returns; arg holds its input
ReturnStep == pc # "idle" /\ pc' = "idle"

\* C15: when add_knowledge(cell, 0) returns, every in-bounds neighbour of cell
\* is in safes and no sentence of the knowledge base holds one of them; on a
\* fresh 3 x 3 engine add_knowledge((1,1), 0) puts the 8 other cells in safes.
C15_ZeroReveal ==
    [][(ReturnStep /\ arg.count = 0) =>
           /\ get_neighbours(arg.cell) \subseteq safes'
           /\ \A k \in DOMAIN knowledge' :
                  knowledge'[k].cells \cap get_neighbours(arg.cell) = {}]_vars

\* the 3 x 3 engine after add_knowledge((1,1), 0)
C15_Witness ==
    /\ height = 3
    /\ width = 3
    /\ pc = "idle"
    /\ moves_made = {<<1, 1>>}
    /\ safes = Cells
    /\ mines = {}
    /\ knowledge = <<>>

\* C16: on a fresh engine, add_knowledge(cell, n) with 0 < n < number of
\* in-bounds neighbours of cell returns with exactly one sentence, (all the
\* neighbours of cell, n), with mines empty and with safes = {cell}.
C16_LoneSentence ==
    [][(/\ ReturnStep
        /\ budget = SceneCalls - 1
        /\ 0 < arg.count
        /\ arg.count < Cardinality(get_neighbours(arg.cell))) =>
           /\ knowledge' = <<Sentence(get_neighbours(arg.cell), arg.count)>>
           /\ mines' = {}
           /\ safes' = {arg.cell}]_vars

\* the 2 x 2 engine, a mine at (0,0), after add_knowledge((1,1), 1)
C16_Witness ==
    /\ height = 2
    /\ width = 2
    /\ board = {<<0, 0>>}
    /\ pc = "idle"
    /\ moves_made = {<<1, 1>>}
    /\ safes = {<<1, 1>>}
    /\ mines = {}
    /\ knowledge = <<Sentence({<<0, 0>>, <<0, 1>>, <<1, 0>>}, 1)>>

\* a call of inferences() is made only when moves_made and safes have the same
\* number of cells
C17_PassOnlyWhenEqual ==
    (pc = "ak_while" /\ pc' = "ak_if") => Cardinality(moves_made) = Cardinality(safes)

\* when mines_safes comes back with a cell of safes that is not in moves_made,
\* add_knowledge returns, calls inferences() no more and adds no sentence
C17_ReturnsWhenSafePending ==
    (pc = "ak_while" /\ safes \ moves_made # {}) =>
        /\ pc' = "idle"
        /\ knowledge' = knowledge
        /\ new_knowledge' = <<>>

\* a sentence is appended only by the first step of add_knowledge or after a
\* call of inferences(), moves_made and safes having the same number of cells
C17_DerivedOnlyWhenEqual ==
    Len(knowledge') > Len(knowledge) =>
        \/ CallStep
        \/ pc = "ak_if" /\ Cardinality(moves_made) = Cardinality(safes)

AppendStep == pc = "ak_if" /\ Len(knowledge') > Len(knowledge)

\* no sentence the pass appended equals a sentence that was there before
C18_NoDuplicateOfOld ==
    [][AppendStep =>
           \A k \in (Len(knowledge) + 1) .. Len(knowledge') :
               \A j \in 1 .. Len(knowledge) : knowledge'[j] # knowledge'[k]]_vars

\* C18: after the sentences a derivation pass accepted are appended, no
\* sentence the pass added is equal (same cells, same count) to another
\* sentence of the knowledge base, be it one that was there before the pass or
\* one the same pass added.
C18_NoDuplicateDerived ==
    [][AppendStep =>
           \A k \in (Len(knowledge) + 1) .. Len(knowledge') :
               \A j \in DOMAIN knowledge' :
                   j # k => knowledge'[j] # knowledge'[k]]_vars

\* C19: whenever add_knowledge has returned, no sentence of the knowledge base
\* holds a cell that is in safes, in mines or in moves_made, be the sentence an
\* ingested or a derived one.
C19_OnlyUndetermined ==
    Returned =>
        \A k \in DOMAIN knowledge :
            knowledge[k].cells \cap (safes \cup mines \cup moves_made) = {}

\* add_knowledge has returned with more sentences than calls were made, so
\* with a derived sentence, and with a cell known safe that was never revealed
C19_Witness ==
    /\ Returned
    /\ Len(knowledge) > DeepCalls - budget
    /\ safes # moves_made

====
